---------------------------- MODULE Spec2Model ----------------------------
(***************************************************************************)
(* A model of the resume analyzer (analyzer.py): text extraction, section  *)
(* segmentation, job-fit matching, issue compilation, scoring and          *)
(* recommendations, and the orchestrator analyze_resume that chains them.  *)
(*                                                                         *)
(* Representation of Python strings.  A text is the non-empty sequence of  *)
(* its lines (text.split('\n')); a line is the sequence of its             *)
(* whitespace-separated tokens (line.split()), so the empty string is      *)
(* << <<>> >>.  Lines carry no leading or trailing blanks and tokens are   *)
(* separated by one space, which is what the extractor's normalisation     *)
(* produces.  What Python computes on the characters of a token (lower,    *)
(* replace, len, isdigit, substring and regular-expression search) is      *)
(* tabulated in TokenInfo for the tokens of the model's vocabulary.        *)
(* Results of the external libraries (PyMuPDF, python-docx, pytesseract,   *)
(* spaCy, transformers) are inputs chosen by the environment.              *)
(***************************************************************************)
EXTENDS Integers, Sequences, FiniteSets, TLC

None == "None"

\* A 150-character run without blanks (a token as long as the OCR threshold).
LongToken ==
  "xxxxxxxxxxxxxxxxxxxxxxxxxxxxxxxxxxxxxxxxxxxxxxxxxxxxxxxxxxxxxxxxxxxxxxxxxxxxxxxxxxxxxxxxxxxxxxxxxxxxxxxxxxxxxxxxxxxxxxxxxxxxxxxxxxxxxxxxxxxxxxxxxxxxxx"

(***************************************************************************)
(* Configuration tables (analyzer.py, section 1).                          *)
(***************************************************************************)
OUTDATED_TECH ==
  {"flash", "jquery", "svn", "subversion", "visual basic", "vb.net",
   "webforms", "soap", "angularjs"}

BUZZWORDS ==
  {"synergy", "go-getter", "team player", "results-oriented", "dynamic",
   "proactive", "thought leader", "self-starter"}

ACTION_VERBS ==
  {"achieved", "accelerated", "improved", "drove", "managed", "created",
   "launched", "led", "increased", "decreased", "optimized"}

EDUCATION_TERMS ==
  {"b.s", "b.a", "m.s", "m.a", "ph.d", "bachelor", "master", "doctorate",
   "university", "college", "institute"}

\* The domains in the order the dict literal DOMAIN_KEYWORDS lists them.
DomainOrder == <<"software", "marketing", "graphic_designer", "scm">>

DOMAIN_KEYWORDS ==
  [software |-> {"engineer", "developer", "python", "java", "aws", "software",
                 "api", "database", "git", "cloud"},
   marketing |-> {"marketing", "campaign", "brand", "seo", "ppc", "content",
                  "digital", "analytic", "social media"},
   graphic_designer |-> {"graphic", "photoshop", "illustrator", "figma",
                         "design", "visual", "assets", "branding"},
   scm |-> {"supply chain", "scm", "logistics", "warehousing", "distribution",
            "procurement", "inventory", "freight"}]

DEFAULT_JDS ==
  [marketing |-> "Marketing Manager: Expertise in B2B/B2C marketing, demand generation, campaign execution, digital marketing (SEO, SEM, PPC), content strategy, and marketing analytics.",
   software |-> "Senior Software Engineer: Skilled in Python, Java, Go, data structures, algorithms, cloud computing (AWS/Azure/GCP), microservices architecture, Docker, Kubernetes, and SQL/NoSQL databases.",
   graphic_designer |-> "Graphic Designer: Proficiency in Adobe Creative Suite (Photoshop, Illustrator, InDesign), Figma, and Sketch. Experience in UI/UX design, branding, and creating visual assets for digital and print media.",
   scm |-> "Supply Chain Manager: Experience in logistics, inventory management, procurement, vendor relations, warehousing, and distribution. Focus on optimizing processes and reducing costs.",
   generic |-> "A general professional role with a focus on clear communication, quantifiable achievements, leadership, project management, and problem-solving skills."]

(***************************************************************************)
(* Strings.                                                                *)
(***************************************************************************)
\* Per token of the vocabulary: t.lower(), t.lower().replace(':', ''),
\* len(t), any(c.isdigit() for c in t), re.search(r'\b(19|20)\d{2}\b', t),
\* and the one-word terms of ACTION_VERBS, EDUCATION_TERMS and
\* DOMAIN_KEYWORDS that are substrings of t.lower().
TokenInfo ==
  "Summary" :> [lower |-> "summary", clean |-> "summary", len |-> 7, digit |-> FALSE, year |-> FALSE, terms |-> {}] @@
  "A" :> [lower |-> "a", clean |-> "a", len |-> 1, digit |-> FALSE, year |-> FALSE, terms |-> {}] @@
  "dynamic" :> [lower |-> "dynamic", clean |-> "dynamic", len |-> 7, digit |-> FALSE, year |-> FALSE, terms |-> {}] @@
  "team" :> [lower |-> "team", clean |-> "team", len |-> 4, digit |-> FALSE, year |-> FALSE, terms |-> {}] @@
  "player." :> [lower |-> "player.", clean |-> "player.", len |-> 7, digit |-> FALSE, year |-> FALSE, terms |-> {}] @@
  "Skills" :> [lower |-> "skills", clean |-> "skills", len |-> 6, digit |-> FALSE, year |-> FALSE, terms |-> {}] @@
  "Python," :> [lower |-> "python,", clean |-> "python,", len |-> 7, digit |-> FALSE, year |-> FALSE, terms |-> {"python"}] @@
  "AWS" :> [lower |-> "aws", clean |-> "aws", len |-> 3, digit |-> FALSE, year |-> FALSE, terms |-> {"aws"}] @@
  "Work" :> [lower |-> "work", clean |-> "work", len |-> 4, digit |-> FALSE, year |-> FALSE, terms |-> {}] @@
  "History" :> [lower |-> "history", clean |-> "history", len |-> 7, digit |-> FALSE, year |-> FALSE, terms |-> {}] @@
  "Education:" :> [lower |-> "education:", clean |-> "education", len |-> 10, digit |-> FALSE, year |-> FALSE, terms |-> {}] @@
  "Tools" :> [lower |-> "tools", clean |-> "tools", len |-> 5, digit |-> FALSE, year |-> FALSE, terms |-> {}] @@
  "EXPERIENCE" :> [lower |-> "experience", clean |-> "experience", len |-> 10, digit |-> FALSE, year |-> FALSE, terms |-> {}] @@
  "Led" :> [lower |-> "led", clean |-> "led", len |-> 3, digit |-> FALSE, year |-> FALSE, terms |-> {"led"}] @@
  "5" :> [lower |-> "5", clean |-> "5", len |-> 1, digit |-> TRUE, year |-> FALSE, terms |-> {}] @@
  "engineers" :> [lower |-> "engineers", clean |-> "engineers", len |-> 9, digit |-> FALSE, year |-> FALSE, terms |-> {"engineer"}] @@
  "at" :> [lower |-> "at", clean |-> "at", len |-> 2, digit |-> FALSE, year |-> FALSE, terms |-> {}] @@
  "Acme" :> [lower |-> "acme", clean |-> "acme", len |-> 4, digit |-> FALSE, year |-> FALSE, terms |-> {}] @@
  "Corp" :> [lower |-> "corp", clean |-> "corp", len |-> 4, digit |-> FALSE, year |-> FALSE, terms |-> {}] @@
  "Managed" :> [lower |-> "managed", clean |-> "managed", len |-> 7, digit |-> FALSE, year |-> FALSE, terms |-> {"managed"}] @@
  "cloud" :> [lower |-> "cloud", clean |-> "cloud", len |-> 5, digit |-> FALSE, year |-> FALSE, terms |-> {"cloud"}] @@
  "database" :> [lower |-> "database", clean |-> "database", len |-> 8, digit |-> FALSE, year |-> FALSE, terms |-> {"database"}] @@
  "projects" :> [lower |-> "projects", clean |-> "projects", len |-> 8, digit |-> FALSE, year |-> FALSE, terms |-> {}] @@
  "B.S." :> [lower |-> "b.s.", clean |-> "b.s.", len |-> 4, digit |-> FALSE, year |-> FALSE, terms |-> {"b.s"}] @@
  "University" :> [lower |-> "university", clean |-> "university", len |-> 10, digit |-> FALSE, year |-> FALSE, terms |-> {"university"}] @@
  "2019" :> [lower |-> "2019", clean |-> "2019", len |-> 4, digit |-> TRUE, year |-> TRUE, terms |-> {}] @@
  "Social" :> [lower |-> "social", clean |-> "social", len |-> 6, digit |-> FALSE, year |-> FALSE, terms |-> {}] @@
  "media" :> [lower |-> "media", clean |-> "media", len |-> 5, digit |-> FALSE, year |-> FALSE, terms |-> {}] @@
  "marketing" :> [lower |-> "marketing", clean |-> "marketing", len |-> 9, digit |-> FALSE, year |-> FALSE, terms |-> {"marketing"}] @@
  "campaign" :> [lower |-> "campaign", clean |-> "campaign", len |-> 8, digit |-> FALSE, year |-> FALSE, terms |-> {"campaign"}] @@
  "synergy" :> [lower |-> "synergy", clean |-> "synergy", len |-> 7, digit |-> FALSE, year |-> FALSE, terms |-> {}] @@
  "Skilled" :> [lower |-> "skilled", clean |-> "skilled", len |-> 7, digit |-> FALSE, year |-> FALSE, terms |-> {"led"}] @@
  "and" :> [lower |-> "and", clean |-> "and", len |-> 3, digit |-> FALSE, year |-> FALSE, terms |-> {}] @@
  ":" :> [lower |-> ":", clean |-> "", len |-> 1, digit |-> FALSE, year |-> FALSE, terms |-> {}] @@
  "TESSERACT_NOT_FOUND" :> [lower |-> "tesseract_not_found", clean |-> "tesseract_not_found", len |-> 19, digit |-> FALSE, year |-> FALSE, terms |-> {}] @@
  "SEO" :> [lower |-> "seo", clean |-> "seo", len |-> 3, digit |-> FALSE, year |-> FALSE, terms |-> {"seo"}] @@
  "Photoshop" :> [lower |-> "photoshop", clean |-> "photoshop", len |-> 9, digit |-> FALSE, year |-> FALSE, terms |-> {"photoshop"}] @@
  "Figma" :> [lower |-> "figma", clean |-> "figma", len |-> 5, digit |-> FALSE, year |-> FALSE, terms |-> {"figma"}] @@
  "Branding" :> [lower |-> "branding", clean |-> "branding", len |-> 8, digit |-> FALSE, year |-> FALSE, terms |-> {"brand", "branding"}] @@
  "Logistics" :> [lower |-> "logistics", clean |-> "logistics", len |-> 9, digit |-> FALSE, year |-> FALSE, terms |-> {"logistics"}] @@
  "inventory" :> [lower |-> "inventory", clean |-> "inventory", len |-> 9, digit |-> FALSE, year |-> FALSE, terms |-> {"inventory"}] @@
  "freight" :> [lower |-> "freight", clean |-> "freight", len |-> 7, digit |-> FALSE, year |-> FALSE, terms |-> {"freight"}] @@
  LongToken :> [lower |-> LongToken, clean |-> LongToken, len |-> 150, digit |-> FALSE, year |-> FALSE, terms |-> {}]

Vocab == DOMAIN TokenInfo

\* <<a, b, term>>: the two-word term occurs in (a + " " + b).lower() and in
\* neither token alone.
PairTerms == {<<"Social", "media", "social media">>}

EmptyText == << <<>> >>

\* The value None where a text is expected (no text has zero lines).
NoText == <<>>

\* bool(text) of a Python string or None.
Truthy(text) == text # NoText /\ text # EmptyText

Max(a, b) == IF a >= b THEN a ELSE b

Min(a, b) == IF a <= b THEN a ELSE b

RECURSIVE SumSeq(_)
SumSeq(s) == IF s = <<>> THEN 0 ELSE Head(s) + SumSeq(Tail(s))

\* len(line) of a line without surrounding blanks.
LineLen(line) ==
  IF line = <<>> THEN 0
  ELSE SumSeq([i \in 1..Len(line) |-> TokenInfo[line[i]].len]) + (Len(line) - 1)

\* len(text).
TextLen(text) ==
  SumSeq([i \in 1..Len(text) |-> LineLen(text[i])]) + (Len(text) - 1)

\* text.strip(): leading and trailing blank lines go; lines themselves carry
\* no surrounding blanks.
RECURSIVE DropLeadingBlank(_)
DropLeadingBlank(ls) ==
  IF ls # <<>> /\ Head(ls) = <<>> THEN DropLeadingBlank(Tail(ls)) ELSE ls

RECURSIVE DropTrailingBlank(_)
DropTrailingBlank(ls) ==
  IF ls # <<>> /\ ls[Len(ls)] = <<>>
  THEN DropTrailingBlank(SubSeq(ls, 1, Len(ls) - 1))
  ELSE ls

StripText(text) ==
  LET core == DropTrailingBlank(DropLeadingBlank(text))
  IN IF core = <<>> THEN EmptyText ELSE core

\* "\n".join(lines).
JoinLines(lines) == IF lines = <<>> THEN EmptyText ELSE lines

\* any(char.isdigit() for char in line).
LineHasDigit(line) == \E i \in 1..Len(line) : TokenInfo[line[i]].digit

\* any(char.isdigit() for char in text).
TextHasDigit(text) == \E i \in 1..Len(text) : LineHasDigit(text[i])

\* text.lower().split(): the lower-cased tokens of the text.
LowerWords(text) ==
  UNION {{TokenInfo[text[i][j]].lower : j \in 1..Len(text[i])} :
           i \in 1..Len(text)}

\* term in text.lower(), for a term of the tabulated term sets.
TermIn(term, text) ==
  \E i \in 1..Len(text) :
    \/ \E j \in 1..Len(text[i]) : term \in TokenInfo[text[i][j]].terms
    \/ \E j \in 1..(Len(text[i]) - 1) :
         <<text[i][j], text[i][j + 1], term>> \in PairTerms

\* re.search(r'\b(19|20)\d{2}\b', text).
YearIn(text) ==
  \E i \in 1..Len(text) : \E j \in 1..Len(text[i]) : TokenInfo[text[i][j]].year

(***************************************************************************)
(* Section segmenter: parse_sections_by_iteration.                         *)
(***************************************************************************)
\* The keys of section_keywords, in the order of the dict literal.
SectionKeys == <<"profile_summary", "work_experience", "education", "skills">>

SectionNames == {SectionKeys[i] : i \in 1..Len(SectionKeys)}

\* section_keywords; a keyword is written as the sequence of its words.
section_keywords ==
  [profile_summary |-> {<<"summary">>, <<"profile">>, <<"objective">>},
   work_experience |-> {<<"experience">>, <<"work", "history">>,
                        <<"professional", "experience">>,
                        <<"experience", "details">>},
   education |-> {<<"education">>, <<"academic", "background">>,
                  <<"academic", "record">>,
                  <<"professional", "qualification">>},
   skills |-> {<<"skills">>, <<"technical", "skills">>,
               <<"technical", "proficiency">>, <<"tools">>,
               <<"skill", "set">>, <<"core", "competencies">>,
               <<"areas", "of", "expertise">>, <<"computer", "skills">>}]

\* keyword_to_section as a relation: no keyword is listed under two sections.
KeywordSection(kw) == CHOOSE key \in SectionNames : kw \in section_keywords[key]

AllKeywords == UNION {section_keywords[key] : key \in SectionNames}

\* line.strip().lower().replace(':', ''), token by token.  A token made of
\* colons only leaves an empty word and so a doubled or dangling space, which
\* equals no keyword.
CleanedLine(line) == [i \in 1..Len(line) |-> TokenInfo[line[i]].clean]

\* len(cleaned_line.split()).
WordCount(cleaned) == Cardinality({i \in 1..Len(cleaned) : cleaned[i] # ""})

\* The test of line 104.
IsHeading(line) ==
  LET cleaned == CleanedLine(line)
  IN 1 <= WordCount(cleaned) /\ WordCount(cleaned) <= 4 /\ cleaned \in AllKeywords

\* A loop that starts a section afresh at each of its headings.
RECURSIVE ParseLoopLastRun(_, _, _, _)
ParseLoopLastRun(lines, i, cur, acc) ==
  IF i > Len(lines) THEN acc
  ELSE IF IsHeading(lines[i])
       THEN LET key == KeywordSection(CleanedLine(lines[i]))
            IN ParseLoopLastRun(lines, i + 1, key, [acc EXCEPT ![key] = <<>>])
       ELSE IF cur # None
            THEN ParseLoopLastRun(lines, i + 1, cur,
                                  [acc EXCEPT ![cur] = Append(@, lines[i])])
            ELSE ParseLoopLastRun(lines, i + 1, cur, acc)

\* The loop of lines 101-109 from line i on: current_section is cur (None
\* before the first heading), acc holds the lines appended so far.
RECURSIVE ParseLoop(_, _, _, _)
ParseLoop(lines, i, cur, acc) ==
  IF i > Len(lines) THEN acc
  ELSE IF IsHeading(lines[i])
       THEN ParseLoop(lines, i + 1, KeywordSection(CleanedLine(lines[i])), acc)
       ELSE IF cur # None
            THEN ParseLoop(lines, i + 1, cur,
                           [acc EXCEPT ![cur] = Append(@, lines[i])])
            ELSE ParseLoop(lines, i + 1, cur, acc)

parse_sections_by_iteration(text) ==
  LET acc == ParseLoop(text, 1, None, [key \in SectionNames |-> <<>>])
  IN [key \in SectionNames |-> StripText(JoinLines(acc[key]))]

(***************************************************************************)
(* Text extractor: extract_text_from_pdf, extract_text_from_docx,          *)
(* master_text_extractor.  A document is what the libraries read from the  *)
(* file: ext, the extension of the path; opens, whether opening and        *)
(* reading the file raises nothing; layer, the concatenated                *)
(* page.get_text() of a PDF or the newline-joined paragraphs of a DOCX;    *)
(* ocr, per PDF page, what rendering and recognising the page gives.       *)
(***************************************************************************)
OcrThreshold == 150

TESSERACT_NOT_FOUND == << <<"TESSERACT_NOT_FOUND">> >>

\* full_text += page_text + "\n", for a full_text that is empty or ends
\* with a newline.
AppendPage(full_text, page_text) ==
  SubSeq(full_text, 1, Len(full_text) - 1) \o page_text \o << <<>> >>

\* The OCR loop of lines 62-69 from page i on.  A page of kind "text" is
\* rendered and recognised; "render_error" raises in get_pixmap or
\* Image.open, "ocr_error" raises in image_to_string (both reach line 72).
\* Without the engine image_to_string raises TesseractNotFoundError.
RECURSIVE OcrLoop(_, _, _, _)
OcrLoop(pages, i, full_text, engine) ==
  IF i > Len(pages)
  THEN [text |-> StripText(full_text), heavy |-> TRUE, via |-> "return"]
  ELSE IF pages[i].kind = "render_error"
       THEN [text |-> EmptyText, heavy |-> FALSE, via |-> "except"]
       ELSE IF ~engine
            THEN [text |-> TESSERACT_NOT_FOUND, heavy |-> FALSE,
                  via |-> "ocr_missing"]
            ELSE IF pages[i].kind = "ocr_error"
                 THEN [text |-> EmptyText, heavy |-> FALSE, via |-> "except"]
                 ELSE OcrLoop(pages, i + 1,
                              AppendPage(full_text, pages[i].text), engine)

extract_text_from_pdf(d, engine) ==
  IF ~d.opens
  THEN [text |-> EmptyText, heavy |-> FALSE, via |-> "except"]
  ELSE IF TextLen(StripText(d.layer)) < OcrThreshold
       THEN OcrLoop(d.ocr, 1, EmptyText, engine)
       ELSE [text |-> StripText(d.layer), heavy |-> FALSE, via |-> "return"]

extract_text_from_docx(d) ==
  IF ~d.opens
  THEN [text |-> EmptyText, heavy |-> FALSE, via |-> "except"]
  ELSE [text |-> StripText(d.layer), heavy |-> FALSE, via |-> "return"]

\* os.path.splitext(filepath)[1].lower().
ExtLower(ext) ==
  CASE ext = ".PDF" -> ".pdf"
    [] ext = ".Docx" -> ".docx"
    [] OTHER -> ext

\* The normalisation of lines 128-129: blanks around newlines go, so no
\* blank line is left (runs of spaces inside a line are single already).
NormalizeText(text) ==
  LET kept == SelectSeq(text, LAMBDA line : line # <<>>)
  IN IF kept = <<>> THEN EmptyText ELSE kept

\* {} : the dict without keys.
NoSections == <<>>

master_text_extractor(d, engine) ==
  LET ext == ExtLower(d.ext)
  IN IF ext \notin {".pdf", ".docx"}
     THEN [raw_text |-> NoText, sections |-> NoSections,
           is_graphics_heavy |-> FALSE, via |-> "unsupported"]
     ELSE LET got == IF ext = ".pdf" THEN extract_text_from_pdf(d, engine)
                     ELSE extract_text_from_docx(d)
          IN IF ~Truthy(got.text) \/ got.text = TESSERACT_NOT_FOUND
             THEN [raw_text |-> got.text, sections |-> NoSections,
                   is_graphics_heavy |-> got.heavy, via |-> got.via]
             ELSE LET normalized_text == NormalizeText(got.text)
                  IN [raw_text |-> normalized_text,
                      sections |-> parse_sections_by_iteration(normalized_text),
                      is_graphics_heavy |-> got.heavy, via |-> got.via]

(***************************************************************************)
(* Job-fit matcher: match_job_description.  nlp(text) is spaCy's; the      *)
(* model takes its result, a document, as the set of its tokens, each with *)
(* lemma_, is_stop, is_punct and is_alpha.                                 *)
(***************************************************************************)
\* The lemma strings of the model in the order Python's sorted() gives them.
LemmaOrder ==
  <<",", "3", "aws", "cloud", "docker", "git", "go", "java", "jquery",
    "linux", "python", "react", "rust", "soap", "sql", "team", "the">>

\* The set comprehension of lines 146 and 147.
KeepsToken(token) == ~token.is_stop /\ ~token.is_punct /\ token.is_alpha

LemmaSet(document) == {token.lemma : token \in {u \in document : KeepsToken(u)}}

\* sorted(list(S)) for a set of lemma strings.
Sorted(S) == SelectSeq(LemmaOrder, LAMBDA l : l \in S)

\* int((overlap / total) * 100): the product is truncated.  For totals below
\* 50 the double-precision quotient and product truncate to the same integer
\* as the exact value; from 29/50 on they can fall one short.
IntPercent(overlap, total) == (overlap * 100) \div total

MissingKeepsOverlap(resume_lemmas, jd_lemmas) == jd_lemmas

\* jd_lemmas - resume_lemmas of line 153.
MissingLemmas(resume_lemmas, jd_lemmas) == jd_lemmas \ resume_lemmas

NoMatch == [score |-> 0, missing_keywords |-> <<>>, overlap_keywords |-> <<>>]

\* match_job_description, given whether nlp is loaded and the lemma sets of
\* lines 146-147.
match_job_description(loaded, resume_lemmas, jd_lemmas) ==
  IF ~loaded THEN NoMatch
  ELSE IF jd_lemmas = {} THEN NoMatch
  ELSE LET overlap == resume_lemmas \cap jd_lemmas
       IN [score |-> IntPercent(Cardinality(overlap), Cardinality(jd_lemmas)),
           missing_keywords |-> Sorted(MissingLemmas(resume_lemmas, jd_lemmas)),
           overlap_keywords |-> Sorted(overlap)]

(***************************************************************************)
(* Issue compiler: compile_issues.  An issue is its message text and, for  *)
(* the f-string of line 166, the set of buzzwords joined into it.          *)
(***************************************************************************)
Issue(message) == [text |-> message, items |-> {}]

SkillsMissing == Issue("A dedicated 'Skills' section is crucial for ATS and is missing.")
WorkMissing == Issue("A standard 'Work Experience' section was not found.")
ValueProposition == Issue("Profile summary may lack a clear value proposition.")
DegreeMissing == Issue("Education section may be missing degree or institution information.")
YearMissing == Issue("Education section is missing a clear graduation year.")
EducationMissing == Issue("An 'Education' section was not found.")
LacksQuantification == Issue("Work experience lacks quantification. Add metrics to show impact.")
GraphicsHeavy == Issue("Resume appears to be graphics-heavy or image-based.")
UsesBuzzwords(found) == [text |-> "Profile summary uses buzzwords: ", items |-> found]

\* word in issue, for the three words generate_personalized_recommendations
\* looks for; no buzzword contains any of them.
Mentions(issue, word) ==
  CASE word = "section" ->
         issue \in {SkillsMissing, WorkMissing, DegreeMissing, YearMissing,
                    EducationMissing}
    [] word = "value proposition" -> issue = ValueProposition
    [] word = "quantification" -> issue = LacksQuantification

\* sections.get(key, ""): None and "" are both falsy.
SectionText(sections, key) ==
  IF key \in DOMAIN sections THEN sections[key] ELSE EmptyText

\* BUZZWORDS.intersection(summary_text.lower().split()).
FoundBuzzwords(summary_text) == BUZZWORDS \cap LowerWords(summary_text)

\* Lines 179-182: the lines of more than 15 characters, those of them with
\* a digit, and quantification_ratio < 0.3 (n = 0 gives ratio 0).
LongLineThreshold == 15

LongLines(exp_text) ==
  SelectSeq(exp_text, LAMBDA line : LineLen(line) > LongLineThreshold)

RatioAtMost(quantified, n) == IF n = 0 THEN TRUE ELSE 10 * quantified <= 3 * n

RatioBelow(quantified, n) == IF n = 0 THEN TRUE ELSE 10 * quantified < 3 * n

QuantifiedLines(lines) == Len(SelectSeq(lines, LineHasDigit))

FormattingChecks(sections) ==
  (IF ~Truthy(SectionText(sections, "skills")) THEN <<SkillsMissing>> ELSE <<>>)
  \o (IF ~Truthy(SectionText(sections, "work_experience"))
      THEN <<WorkMissing>> ELSE <<>>)

SummaryChecks(sections) ==
  LET summary_text == SectionText(sections, "profile_summary")
  IN IF ~Truthy(summary_text) THEN <<>>
     ELSE (IF FoundBuzzwords(summary_text) # {}
           THEN <<UsesBuzzwords(FoundBuzzwords(summary_text))>> ELSE <<>>)
          \o (IF /\ ~TextHasDigit(summary_text)
                 /\ ~\E verb \in ACTION_VERBS : TermIn(verb, summary_text)
              THEN <<ValueProposition>> ELSE <<>>)

EducationChecks(sections) ==
  LET education_text == SectionText(sections, "education")
  IN IF ~Truthy(education_text) THEN <<EducationMissing>>
     ELSE (IF ~\E term \in EDUCATION_TERMS : TermIn(term, education_text)
           THEN <<DegreeMissing>> ELSE <<>>)
          \o (IF ~YearIn(education_text) THEN <<YearMissing>> ELSE <<>>)

ExperienceChecks(sections) ==
  LET exp_text == SectionText(sections, "work_experience")
  IN IF ~Truthy(exp_text) THEN <<>>
     ELSE LET lines == LongLines(exp_text)
          IN IF RatioBelow(QuantifiedLines(lines), Len(lines))
             THEN <<LacksQuantification>> ELSE <<>>

\* token.lemma_.lower() for the lemmas of the model that are not lower case.
LemmaLower(lemma) ==
  CASE lemma = "jQuery" -> "jquery"
    [] lemma = "SOAP" -> "soap"
    [] OTHER -> lemma

\* Line 184; the list made of the set has no fixed order and is read only
\* for its length and emptiness, so it is kept as the set.
OutdatedTech(loaded, document) ==
  IF loaded THEN OUTDATED_TECH \cap {LemmaLower(token.lemma) : token \in document}
  ELSE {}

\* compile_issues, given the document nlp(raw_text) for line 184.
compile_issues(sections, loaded, document) ==
  [formatting_issues |-> FormattingChecks(sections),
   content_issues |-> SummaryChecks(sections) \o EducationChecks(sections)
                      \o ExperienceChecks(sections),
   outdated_tech |-> OutdatedTech(loaded, document)]

(***************************************************************************)
(* Scoring engine: calculate_scores.                                       *)
(***************************************************************************)
\* Python's round() of the rational num/den (den > 0): to the nearest
\* integer, a tie to the even one.
RoundTruncating(num, den) == num \div den

Round(num, den) ==
  LET low == num \div den
      twice == 2 * (num % den)
  IN IF twice < den THEN low
     ELSE IF twice > den THEN low + 1
     ELSE IF low % 2 = 0 THEN low ELSE low + 1

\* The dict of line 192 in its insertion order.
GradeTable ==
  <<[t |-> 80, g |-> "A"], [t |-> 70, g |-> "B"], [t |-> 60, g |-> "C"],
    [t |-> 40, g |-> "D"]>>

\* next((g for t, g in ... if final_score >= t), "F").
RECURSIVE FirstGrade(_, _)
FirstGrade(table, final_score) ==
  IF table = <<>> THEN "F"
  ELSE IF final_score >= Head(table).t THEN Head(table).g
  ELSE FirstGrade(Tail(table), final_score)

GradeStrict(final_score) ==
  FirstGrade([i \in 1..Len(GradeTable) |->
                [t |-> GradeTable[i].t + 1, g |-> GradeTable[i].g]], final_score)

Grade(final_score) == FirstGrade(GradeTable, final_score)

\* quality_score * 0.4 + jd_match_score * 0.6 is (4q + 6j) / 10; the weights
\* are doubles, and the sum is never within 0.1 of a tie, so rounding the
\* double gives what rounding the exact value gives.
calculate_scores(formatting_issues, content_issues, outdated_tech, jd_match_score) ==
  LET total_failures == Len(formatting_issues) + Len(content_issues)
      quality_score ==
        Max(0, 100 - total_failures * 10 - Cardinality(outdated_tech) * 5)
      final_score == Round(quality_score * 4 + jd_match_score * 6, 10)
  IN [final_score |-> final_score, grade |-> Grade(final_score)]

(***************************************************************************)
(* Recommendation generator: generate_personalized_recommendations.  A     *)
(* recommendation is its text and, for the f-string of line 199, the       *)
(* keywords joined into it.                                                *)
(***************************************************************************)
KeywordLimit == 8

Recommendation(message) == [text |-> message, items |-> <<>>]

ImproveJobFit(keywords) ==
  [text |-> "**Improve Job Fit:** Your resume is missing key terms from the job description. To better match the role, integrate these keywords: ",
   items |-> keywords]
CheckSectionHeaders == Recommendation("**Check Section Headers:** To ensure automated systems read your resume correctly, use standard titles like **'Work Experience'** and **'Technical Skills'**.")
RewriteProfileSummary == Recommendation("**Rewrite Your Profile Summary:** Your summary may use generic phrases. Create a stronger value proposition with powerful action verbs and achievements.")
QuantifyAchievements == Recommendation("**Quantify Your Achievements:** Your work experience lacks metrics. Strengthen your bullet points by adding numbers, percentages (%), or dollar amounts ($).")
UpdateTechnologyStack == Recommendation("**Update Your Technology Stack:** Your resume mentions potentially outdated technologies. Prioritize highlighting modern tools relevant to the job.")
ResumeIsStrong == Recommendation("Your resume is strong and well-aligned. No major recommendations at this time.")

\* any(word in issue for issue in issues).
AnyMentions(issues, word) == \E i \in 1..Len(issues) : Mentions(issues[i], word)

\* job_fit['missing_keywords'][:8].
FirstKeywordsAll(keywords) == keywords

FirstKeywords(keywords) == SubSeq(keywords, 1, Min(KeywordLimit, Len(keywords)))

JobFitThreshold == 75

generate_personalized_recommendations(checks) ==
  LET job_fit == checks["Job Fit"]
      ats_issues == checks["Formatting & ATS"].issues
      content_issues == checks["Content & Impact"].issues
      recommendations ==
        (IF job_fit.score < JobFitThreshold /\ job_fit.missing_keywords # <<>>
         THEN <<ImproveJobFit(FirstKeywords(job_fit.missing_keywords))>>
         ELSE <<>>)
        \o (IF AnyMentions(ats_issues, "section")
            THEN <<CheckSectionHeaders>> ELSE <<>>)
        \o (IF AnyMentions(content_issues, "value proposition")
            THEN <<RewriteProfileSummary>> ELSE <<>>)
        \o (IF AnyMentions(content_issues, "quantification")
            THEN <<QuantifyAchievements>> ELSE <<>>)
        \o (IF checks["Technology Freshness"].outdated_tech # {}
            THEN <<UpdateTechnologyStack>> ELSE <<>>)
  IN IF recommendations = <<>> THEN <<ResumeIsStrong>> ELSE recommendations

(***************************************************************************)
(* Orchestrator: the domain inference of analyze_resume, lines 221-228.    *)
(***************************************************************************)
\* sum(1 for keyword in keywords if keyword in text_lower).
DomainScore(domain, text) ==
  Cardinality({keyword \in DOMAIN_KEYWORDS[domain] : TermIn(keyword, text)})

\* max(domain_scores, key=domain_scores.get): the first domain, in the
\* dict's order, whose score no domain exceeds.
RECURSIVE LastBest(_, _, _)
LastBest(text, i, best) ==
  IF i > Len(DomainOrder) THEN best
  ELSE IF DomainScore(DomainOrder[i], text) >= DomainScore(best, text)
       THEN LastBest(text, i + 1, DomainOrder[i])
       ELSE LastBest(text, i + 1, best)

RECURSIVE FirstBest(_, _, _)
FirstBest(text, i, best) ==
  IF i > Len(DomainOrder) THEN best
  ELSE IF DomainScore(DomainOrder[i], text) > DomainScore(best, text)
       THEN FirstBest(text, i + 1, DomainOrder[i])
       ELSE FirstBest(text, i + 1, best)

BestDomainLast(text) == LastBest(text, 2, DomainOrder[1])

BestDomain(text) == FirstBest(text, 2, DomainOrder[1])

GenericThreshold == 2

\* DEFAULT_JDS.get(domain).
DefaultJd(domain) ==
  IF domain \in DOMAIN DEFAULT_JDS THEN DEFAULT_JDS[domain] ELSE None

InferredDomain(text) ==
  LET best_domain == BestDomain(text)
  IN IF DomainScore(best_domain, text) > GenericThreshold
     THEN best_domain ELSE "generic"

(***************************************************************************)
(* generate_ai_summary: the summarizer is the transformers pipeline; the   *)
(* outcome of its call is the environment's.                               *)
(***************************************************************************)
generate_ai_summary(loaded, outcome) ==
  IF ~loaded THEN "AI summary model is unavailable."
  ELSE IF outcome = "raises" THEN "Could not generate a unique AI summary."
  ELSE "<summary_text>"

(***************************************************************************)
(* State of one call of analyze_resume(filepath, job_description_text).    *)
(*   pc         the step of analyze_resume to run next                     *)
(*   doc        the file at filepath, as the libraries read it             *)
(*   tesseract  whether the OCR engine is installed                        *)
(*   nlp        whether spacy.load succeeded (nlp is not None)             *)
(*   nlp_docs   what nlp returns: resume for nlp(resume_text.lower()),     *)
(*              jd for nlp(job_description_text.lower()), raw for          *)
(*              nlp(raw_text)                                              *)
(*   summarizer None, or how the summarization pipeline answers            *)
(*   the other variables are the locals of analyze_resume and of           *)
(*   match_job_description; ran lists the components that have run.        *)
(***************************************************************************)
VARIABLES uploads, requests, pc, doc, tesseract, nlp, nlp_docs, summarizer,
          job_description_text, raw_text, sections, is_graphics_heavy, via,
          resume_lemmas, jd_lemmas, jd_match,
          formatting_issues, content_issues, outdated_tech,
          final_score, grade, report, ran

vars == <<uploads, requests, pc, doc, tesseract, nlp, nlp_docs, summarizer,
          job_description_text, raw_text, sections, is_graphics_heavy, via,
          resume_lemmas, jd_lemmas, jd_match,
          formatting_issues, content_issues, outdated_tech,
          final_score, grade, report, ran>>

NoReport == <<>>

ErrorExtract == "Failed to extract text. File may be corrupted or an unsupported format."

ErrorTesseract == "Tesseract OCR is not installed."

\* Line 217.
ExtractText ==
  /\ pc = "extract"
  /\ LET got == master_text_extractor(doc, tesseract)
     IN /\ raw_text' = got.raw_text
        /\ sections' = got.sections
        /\ is_graphics_heavy' = got.is_graphics_heavy
        /\ via' = got.via
  /\ ran' = ran \cup {"extraction"}
  /\ pc' = "check"
  /\ UNCHANGED <<uploads, requests, doc, tesseract, nlp, nlp_docs, summarizer,
                 job_description_text, resume_lemmas, jd_lemmas, jd_match,
                 formatting_issues, content_issues, outdated_tech,
                 final_score, grade, report>>

ExtractionErrorEmptyOnly(text) == IF ~Truthy(text) THEN ErrorExtract ELSE None

\* The error of lines 218-219, None when neither test fires.
ExtractionError(text) ==
  IF ~Truthy(text) THEN ErrorExtract
  ELSE IF text = TESSERACT_NOT_FOUND THEN ErrorTesseract
  ELSE None

\* Lines 218-219: the early returns.
FailExtraction ==
  /\ pc = "check"
  /\ ExtractionError(raw_text) # None
  /\ report' = [error |-> ExtractionError(raw_text)]
  /\ pc' = "done"
  /\ UNCHANGED <<uploads, requests, doc, tesseract, nlp, nlp_docs, summarizer,
                 job_description_text, raw_text, sections, is_graphics_heavy,
                 via, resume_lemmas, jd_lemmas, jd_match,
                 formatting_issues, content_issues, outdated_tech,
                 final_score, grade, ran>>

\* Lines 221-228: with no job description, or an empty one, the default of
\* the inferred domain is taken.
InferJobDescription ==
  /\ pc = "check"
  /\ ExtractionError(raw_text) = None
  /\ IF job_description_text \in {None, ""}
     THEN /\ job_description_text' = DefaultJd(InferredDomain(raw_text))
          /\ ran' = ran \cup {"inference"}
     ELSE UNCHANGED <<job_description_text, ran>>
  /\ pc' = "match"
  /\ UNCHANGED <<uploads, requests, doc, tesseract, nlp, nlp_docs, summarizer,
                 raw_text, sections, is_graphics_heavy, via,
                 resume_lemmas, jd_lemmas, jd_match,
                 formatting_issues, content_issues, outdated_tech,
                 final_score, grade, report>>

\* Line 230.
MatchJobDescription ==
  /\ pc = "match"
  /\ resume_lemmas' = IF nlp THEN LemmaSet(nlp_docs.resume) ELSE {}
  /\ jd_lemmas' = IF nlp THEN LemmaSet(nlp_docs.jd) ELSE {}
  /\ jd_match' = match_job_description(nlp, resume_lemmas', jd_lemmas')
  /\ ran' = ran \cup {"matching"}
  /\ pc' = "compile"
  /\ UNCHANGED <<uploads, requests, doc, tesseract, nlp, nlp_docs, summarizer,
                 job_description_text, raw_text, sections, is_graphics_heavy,
                 via, formatting_issues, content_issues, outdated_tech,
                 final_score, grade, report>>

\* Lines 231-232.
CompileIssues ==
  /\ pc = "compile"
  /\ LET got == compile_issues(sections, nlp, nlp_docs.raw)
     IN /\ formatting_issues' =
             IF is_graphics_heavy
             THEN Append(got.formatting_issues, GraphicsHeavy)
             ELSE got.formatting_issues
        /\ content_issues' = got.content_issues
        /\ outdated_tech' = got.outdated_tech
  /\ ran' = ran \cup {"issue_compilation"}
  /\ pc' = "score"
  /\ UNCHANGED <<uploads, requests, doc, tesseract, nlp, nlp_docs, summarizer,
                 job_description_text, raw_text, sections, is_graphics_heavy,
                 via, resume_lemmas, jd_lemmas, jd_match,
                 final_score, grade, report>>

\* Line 234.
CalculateScores ==
  /\ pc = "score"
  /\ LET got == calculate_scores(formatting_issues, content_issues,
                                 outdated_tech, jd_match.score)
     IN /\ final_score' = got.final_score
        /\ grade' = got.grade
  /\ ran' = ran \cup {"scoring"}
  /\ pc' = "report"
  /\ UNCHANGED <<uploads, requests, doc, tesseract, nlp, nlp_docs, summarizer,
                 job_description_text, raw_text, sections, is_graphics_heavy,
                 via, resume_lemmas, jd_lemmas, jd_match,
                 formatting_issues, content_issues, outdated_tech, report>>

\* classified_checks of lines 239-249.
ClassifiedChecks ==
  ("Formatting & ATS" :> [issues |-> formatting_issues]) @@
  ("Content & Impact" :> [issues |-> content_issues]) @@
  ("Job Fit" :> [score |-> jd_match.score,
                 missing_keywords |-> jd_match.missing_keywords,
                 overlap_keywords |-> jd_match.overlap_keywords]) @@
  ("Technology Freshness" :> [outdated_tech |-> outdated_tech])

\* Lines 236-250.
AssembleReport ==
  /\ pc = "report"
  /\ report' =
       [overall_score |-> final_score, resume_grade |-> grade,
        ai_generated_summary |->
          generate_ai_summary(summarizer # None, summarizer),
        classified_checks |-> ClassifiedChecks]
  /\ ran' = ran \cup {"summarization"}
  /\ pc' = "recommend"
  /\ UNCHANGED <<uploads, requests, doc, tesseract, nlp, nlp_docs, summarizer,
                 job_description_text, raw_text, sections, is_graphics_heavy,
                 via, resume_lemmas, jd_lemmas, jd_match,
                 formatting_issues, content_issues, outdated_tech,
                 final_score, grade>>

\* Lines 251-252.
Recommend ==
  /\ pc = "recommend"
  /\ report' =
       [k \in DOMAIN report \cup {"personalized_recommendations"} |->
          IF k = "personalized_recommendations"
          THEN generate_personalized_recommendations(report.classified_checks)
          ELSE report[k]]
  /\ ran' = ran \cup {"recommendation"}
  /\ pc' = "done"
  /\ UNCHANGED <<uploads, requests, doc, tesseract, nlp, nlp_docs, summarizer,
                 job_description_text, raw_text, sections, is_graphics_heavy,
                 via, resume_lemmas, jd_lemmas, jd_match,
                 formatting_issues, content_issues, outdated_tech,
                 final_score, grade>>

\* parse_sections_by_iteration called on its own (line 131).
ParseSections ==
  /\ pc = "parse"
  /\ sections' = parse_sections_by_iteration(raw_text)
  /\ pc' = "compile"
  /\ UNCHANGED <<uploads, requests, doc, tesseract, nlp, nlp_docs, summarizer,
                 job_description_text, raw_text, is_graphics_heavy, via,
                 resume_lemmas, jd_lemmas, jd_match,
                 formatting_issues, content_issues, outdated_tech,
                 final_score, grade, report, ran>>

(***************************************************************************)
(* Inputs.                                                                 *)
(***************************************************************************)
MaxPages == 2
MaxLemmas == 3
MaxLines == 4
MaxExpLines == 10
MaxShortLines == 3
MaxOutdated == 5
MaxKeywords == 10
MaxWords == 6
MaxRequests == 2

\* Lines of the sample resumes.
LineSummary == <<"Summary">>
LineSkills == <<"Skills">>
LineTools == <<"Tools">>
LineEducation == <<"Education:">>
LineDynamic == <<"A", "dynamic", "team", "player.">>
LinePython == <<"Python,", "AWS">>
LineAlmostSkills == <<"Skills", ":">>
LineLed == <<"Led", "5", "engineers", "at", "Acme", "Corp">>
LineManaged == <<"Managed", "cloud", "database", "projects">>
LineAcme == <<"Acme", "Corp">>
LineFifteen == <<"Led", "5", "engineers">>
LineSixteen == <<"engineers", "5", "2019">>
LineSixteenPlain == <<"database", "Summary">>
LineDegree == <<"B.S.", "University", "2019">>

ScenarioText == <<LineSummary, LineDynamic, LineSkills, LinePython>>

\* A resume of more than 150 characters, with a blank line in it.
LongText ==
  <<<<"EXPERIENCE">>, <<LongToken>>, <<>>, LineLed, LineEducation, LineDegree>>

BlankText == << <<>>, <<>> >>

UserJd == "Backend engineer: Python, SQL, AWS."

\* spaCy tokens.
Word(lemma) ==
  [lemma |-> lemma, is_stop |-> FALSE, is_punct |-> FALSE, is_alpha |-> TRUE]
StopWord == [lemma |-> "the", is_stop |-> TRUE, is_punct |-> FALSE, is_alpha |-> TRUE]
Punctuation == [lemma |-> ",", is_stop |-> FALSE, is_punct |-> TRUE, is_alpha |-> FALSE]
Number == [lemma |-> "3", is_stop |-> FALSE, is_punct |-> FALSE, is_alpha |-> FALSE]

\* Lemmas of content words, in ascending order.
ContentLemmas ==
  <<"aws", "cloud", "docker", "git", "go", "java", "linux", "python", "react",
    "rust", "sql", "team">>

FirstLemmas(n) == {ContentLemmas[i] : i \in 1..Min(n, Len(ContentLemmas))}

\* OUTDATED_TECH in some order, to draw subsets of a given size.
OutdatedOrder ==
  <<"jquery", "soap", "flash", "svn", "subversion", "vb.net", "webforms",
    "angularjs", "visual basic">>

FirstOutdated(n) == {OutdatedOrder[i] : i \in 1..Min(n, Len(OutdatedOrder))}

SampleDocs ==
  {[resume |-> {Word("aws"), Word("python"), StopWord},
    jd |-> {Word("aws"), Word("sql"), Word("cloud"), Punctuation},
    raw |-> {Word("jQuery"), Word("python")}],
   [resume |-> {Word("aws")}, jd |-> {Word("aws")}, raw |-> {Word("python")}]}

NoDocs == [resume |-> {}, jd |-> {}, raw |-> {}]

SeqsUpTo(S, n) == UNION {[1..k -> S] : k \in 0..n}

Docx(text) == [ext |-> ".docx", opens |-> TRUE, layer |-> text, ocr |-> <<>>]

\* The documents of the full pipeline.  A PDF without pages has no text
\* layer; a file that does not open has nothing else to read.
LayerTexts == {EmptyText, BlankText, ScenarioText, LongText, TESSERACT_NOT_FOUND}

PageOutcomes ==
  {[kind |-> "text", text |-> ScenarioText],
   [kind |-> "text", text |-> BlankText],
   [kind |-> "render_error", text |-> EmptyText],
   [kind |-> "ocr_error", text |-> EmptyText]}

Documents ==
  {[ext |-> ".txt", opens |-> TRUE, layer |-> ScenarioText, ocr |-> <<>>]}
  \cup {[ext |-> e, opens |-> FALSE, layer |-> EmptyText, ocr |-> <<>>] :
          e \in {".pdf", ".docx"}}
  \cup {[ext |-> e, opens |-> TRUE, layer |-> l, ocr |-> <<>>] :
          e \in {".docx", ".Docx"}, l \in LayerTexts}
  \cup {d \in [ext : {".pdf", ".PDF"}, opens : {TRUE}, layer : LayerTexts,
               ocr : SeqsUpTo(PageOutcomes, MaxPages)] :
          d.ocr = <<>> => d.layer = EmptyText}

(***************************************************************************)
(* The upload handler: upload_and_analyze of app.py.  The server runs one  *)
(* call of the handler per request, and calls of different requests        *)
(* interleave.  uploads is the upload folder, a file per path; requests    *)
(* holds, per request, the submitted form and the handler's position and   *)
(* locals.                                                                 *)
(***************************************************************************)
Requests == 1..MaxRequests

\* The names a client gives its file ("" when it chose none).
Filenames == {"", "cv.pdf", "../cv.pdf", "My CV.docx", "notes.txt", ".."}

\* werkzeug's secure_filename: path separators and leading dots go, blanks
\* become underscores.
secure_filename(filename) ==
  CASE filename = "../cv.pdf" -> "cv.pdf"
    [] filename = "My CV.docx" -> "My_CV.docx"
    [] filename = ".." -> ""
    [] OTHER -> filename

UPLOAD_FOLDER == "uploads/"

\* os.path.join(app.config['UPLOAD_FOLDER'], filename).
PathJoin(folder, filename) ==
  CASE filename = "cv.pdf" -> "uploads/cv.pdf"
    [] filename = "My_CV.docx" -> "uploads/My_CV.docx"
    [] filename = "notes.txt" -> "uploads/notes.txt"
    [] OTHER -> folder

\* os.path.splitext(filepath)[1] of the paths above.
PathExt(filepath) ==
  CASE filepath = "uploads/cv.pdf" -> ".pdf"
    [] filepath = "uploads/My_CV.docx" -> ".docx"
    [] filepath = "uploads/notes.txt" -> ".txt"
    [] OTHER -> ""

Filepath(r) == PathJoin(UPLOAD_FOLDER, secure_filename(requests[r].filename))

\* The paths of files in the upload folder.
Paths == {PathJoin(UPLOAD_FOLDER, secure_filename(f)) : f \in Filenames}
           \ {UPLOAD_FOLDER}

\* No file at a path.
Absent == [owner |-> 0, opens |-> FALSE]

\* The bytes request r uploads: they are its own, and they make a document
\* that opens or one that is corrupted.
Upload(r) == [owner |-> r, opens |-> requests[r].opens]

NoUploads == [p \in Paths |-> Absent]

NoRequests == <<>>

\* What analyze_resume reads at filepath: the document of the bytes stored
\* there, if any (opening a missing file raises, as a corrupted one does).
DocumentAt(filepath) ==
  [ext |-> PathExt(filepath),
   opens |-> filepath \in Paths /\ uploads[filepath] # Absent
               /\ uploads[filepath].opens,
   layer |-> LongText, ocr |-> <<>>]

\* Lines 23-28: no file part, or no file chosen.
Redirect(r) ==
  /\ requests[r].pc = "received"
  /\ ~requests[r].has_file \/ requests[r].filename = ""
  /\ requests' = [requests EXCEPT ![r].pc = "redirected"]
  /\ UNCHANGED <<uploads, pc, doc, tesseract, nlp, nlp_docs, summarizer,
                 job_description_text, raw_text, sections, is_graphics_heavy,
                 via, resume_lemmas, jd_lemmas, jd_match,
                 formatting_issues, content_issues, outdated_tech,
                 final_score, grade, report, ran>>

\* Lines 33-35: file.save(filepath) writes the upload over whatever is at
\* the path; it raises when the path is the folder itself.
SaveUpload(r) ==
  /\ requests[r].pc = "received"
  /\ requests[r].has_file /\ requests[r].filename # ""
  /\ IF Filepath(r) \in Paths
     THEN /\ uploads' = [uploads EXCEPT ![Filepath(r)] = Upload(r)]
          /\ requests' = [requests EXCEPT ![r].pc = "saved"]
     ELSE /\ requests' = [requests EXCEPT ![r].pc = "save_failed"]
          /\ UNCHANGED uploads
  /\ UNCHANGED <<pc, doc, tesseract, nlp, nlp_docs, summarizer,
                 job_description_text, raw_text, sections, is_graphics_heavy,
                 via, resume_lemmas, jd_lemmas, jd_match,
                 formatting_issues, content_issues, outdated_tech,
                 final_score, grade, report, ran>>

\* Line 38: analyze_resume(filepath, job_description) reads the file that
\* is at the path when it runs.
AnalyzeUpload(r) ==
  /\ requests[r].pc = "saved"
  /\ LET got == master_text_extractor(DocumentAt(Filepath(r)), tesseract)
     IN requests' = [requests EXCEPT
                       ![r].pc = "analyzed",
                       ![r].seen = uploads[Filepath(r)].owner,
                       ![r].error = ExtractionError(got.raw_text)]
  /\ UNCHANGED <<uploads, pc, doc, tesseract, nlp, nlp_docs, summarizer,
                 job_description_text, raw_text, sections, is_graphics_heavy,
                 via, resume_lemmas, jd_lemmas, jd_match,
                 formatting_issues, content_issues, outdated_tech,
                 final_score, grade, report, ran>>

\* Line 41: os.remove(filepath) removes the file that is at the path, and
\* raises FileNotFoundError when there is none.
RemoveUpload(r) ==
  /\ requests[r].pc = "analyzed"
  /\ IF uploads[Filepath(r)] # Absent
     THEN /\ uploads' = [uploads EXCEPT ![Filepath(r)] = Absent]
          /\ requests' = [requests EXCEPT
                            ![r].pc = "removed",
                            ![r].removed = uploads[Filepath(r)].owner]
     ELSE /\ requests' = [requests EXCEPT ![r].pc = "remove_failed"]
          /\ UNCHANGED uploads
  /\ UNCHANGED <<pc, doc, tesseract, nlp, nlp_docs, summarizer,
                 job_description_text, raw_text, sections, is_graphics_heavy,
                 via, resume_lemmas, jd_lemmas, jd_match,
                 formatting_issues, content_issues, outdated_tech,
                 final_score, grade, report, ran>>

\* Lines 44-50: the error page, or the report page.
Respond(r) ==
  /\ requests[r].pc = "removed"
  /\ requests' = [requests EXCEPT
                    ![r].pc = "responded",
                    ![r].page = IF requests[r].error # None
                                THEN "error.html" ELSE "report.html"]
  /\ UNCHANGED <<uploads, pc, doc, tesseract, nlp, nlp_docs, summarizer,
                 job_description_text, raw_text, sections, is_graphics_heavy,
                 via, resume_lemmas, jd_lemmas, jd_match,
                 formatting_issues, content_issues, outdated_tech,
                 final_score, grade, report, ran>>

\* The variables a specification sets beside its inputs.
Blank(step) ==
  /\ uploads = NoUploads
  /\ requests = NoRequests
  /\ pc = step
  /\ tesseract = TRUE
  /\ summarizer = None
  /\ is_graphics_heavy = FALSE
  /\ via = "return"
  /\ report = NoReport

(***************************************************************************)
(* Spec: a call of analyze_resume on a file.                               *)
(***************************************************************************)
Init ==
  /\ uploads = NoUploads
  /\ requests = NoRequests
  /\ pc = "extract"
  /\ doc \in Documents
  /\ tesseract \in BOOLEAN
  /\ nlp \in BOOLEAN
  /\ nlp_docs \in SampleDocs
  /\ summarizer \in {None, "returns", "raises"}
  /\ job_description_text \in {None, "", UserJd}
  /\ raw_text = NoText
  /\ sections = NoSections
  /\ is_graphics_heavy = FALSE
  /\ via = None
  /\ resume_lemmas = {}
  /\ jd_lemmas = {}
  /\ jd_match = NoMatch
  /\ formatting_issues = <<>>
  /\ content_issues = <<>>
  /\ outdated_tech = {}
  /\ final_score = 0
  /\ grade = None
  /\ report = NoReport
  /\ ran = {}

Next ==
  \/ ExtractText
  \/ FailExtraction
  \/ InferJobDescription
  \/ MatchJobDescription
  \/ CompileIssues
  \/ CalculateScores
  \/ AssembleReport
  \/ Recommend

Spec == Init /\ [][Next]_vars

(***************************************************************************)
(* SpecMatch: match_job_description on every pair of documents.            *)
(***************************************************************************)
MatchTokens ==
  {Word(l) : l \in FirstLemmas(MaxLemmas)} \cup {StopWord, Punctuation, Number}

InitMatch ==
  /\ Blank("match")
  /\ doc = Docx(ScenarioText)
  /\ raw_text = ScenarioText
  /\ sections = parse_sections_by_iteration(ScenarioText)
  /\ job_description_text = UserJd
  /\ nlp \in BOOLEAN
  /\ nlp_docs \in [resume : SUBSET MatchTokens, jd : SUBSET MatchTokens,
                   raw : {{}}]
  /\ resume_lemmas = {}
  /\ jd_lemmas = {}
  /\ jd_match = NoMatch
  /\ formatting_issues = <<>>
  /\ content_issues = <<>>
  /\ outdated_tech = {}
  /\ final_score = 0
  /\ grade = None
  /\ ran = {"extraction"}

NextMatch == MatchJobDescription

SpecMatch == InitMatch /\ [][NextMatch]_vars

(***************************************************************************)
(* SpecScores: calculate_scores on every count of issues and every         *)
(* job-fit score.                                                          *)
(***************************************************************************)
Prefixes(s) == {SubSeq(s, 1, k) : k \in 0..Len(s)}

InitScores ==
  /\ Blank("score")
  /\ doc = Docx(ScenarioText)
  /\ raw_text = ScenarioText
  /\ sections = parse_sections_by_iteration(ScenarioText)
  /\ job_description_text = UserJd
  /\ nlp = TRUE
  /\ nlp_docs = NoDocs
  /\ resume_lemmas = {}
  /\ jd_lemmas = {}
  /\ jd_match \in [score : 0..100, missing_keywords : {<<>>},
                   overlap_keywords : {<<>>}]
  /\ formatting_issues \in Prefixes(<<SkillsMissing, WorkMissing, GraphicsHeavy>>)
  /\ content_issues \in
       Prefixes(<<UsesBuzzwords({"dynamic"}), ValueProposition, DegreeMissing,
                  YearMissing, LacksQuantification>>)
  /\ outdated_tech \in {FirstOutdated(n) : n \in 0..MaxOutdated}
  /\ final_score = 0
  /\ grade = None
  /\ ran = {"extraction", "matching", "issue_compilation"}

NextScores == CalculateScores

SpecScores == InitScores /\ [][NextScores]_vars

(***************************************************************************)
(* SpecText: parse_sections_by_iteration, then compile_issues, on every    *)
(* text of up to MaxLines lines.                                           *)
(***************************************************************************)
TextLines ==
  {LineSummary, LineSkills, LineTools, LineEducation, LineDynamic, LinePython,
   LineAlmostSkills, <<>>}

InitText ==
  /\ Blank("parse")
  /\ raw_text \in SeqsUpTo(TextLines, MaxLines) \ {<<>>}
  /\ doc = Docx(raw_text)
  /\ sections = NoSections
  /\ job_description_text = UserJd
  /\ nlp = TRUE
  /\ nlp_docs = NoDocs
  /\ resume_lemmas = {}
  /\ jd_lemmas = {}
  /\ jd_match = NoMatch
  /\ formatting_issues = <<>>
  /\ content_issues = <<>>
  /\ outdated_tech = {}
  /\ final_score = 0
  /\ grade = None
  /\ ran = {}

NextText ==
  \/ ParseSections
  \/ CompileIssues

SpecText == InitText /\ [][NextText]_vars

(***************************************************************************)
(* SpecIssues: compile_issues on work-experience sections.                 *)
(***************************************************************************)
ExperienceTexts ==
  {EmptyText}
  \cup (SeqsUpTo({LineLed, LineManaged}, MaxExpLines) \ {<<>>})
  \cup (SeqsUpTo({LineAcme, LineFifteen, LineSixteen, LineSixteenPlain,
                  LineManaged}, MaxShortLines) \ {<<>>})

InitIssues ==
  /\ Blank("compile")
  /\ sections \in [profile_summary : {EmptyText},
                   work_experience : ExperienceTexts,
                   education : {<<LineDegree>>},
                   skills : {<<LinePython>>}]
  /\ raw_text = <<LineSkills, LinePython>>
  /\ doc = Docx(raw_text)
  /\ job_description_text = UserJd
  /\ nlp = TRUE
  /\ nlp_docs = NoDocs
  /\ resume_lemmas = {}
  /\ jd_lemmas = {}
  /\ jd_match = NoMatch
  /\ formatting_issues = <<>>
  /\ content_issues = <<>>
  /\ outdated_tech = {}
  /\ final_score = 0
  /\ grade = None
  /\ ran = {"extraction", "matching"}

NextIssues == CompileIssues

SpecIssues == InitIssues /\ [][NextIssues]_vars

(***************************************************************************)
(* SpecRecs: the report assembled from every combination of checks, and    *)
(* generate_personalized_recommendations on it.                            *)
(***************************************************************************)
SubSeqs(s) ==
  {SelectSeq(s, LAMBDA x : x \in keep) : keep \in SUBSET {s[i] : i \in 1..Len(s)}}

InitRecs ==
  /\ Blank("report")
  /\ doc = Docx(ScenarioText)
  /\ raw_text = ScenarioText
  /\ sections = parse_sections_by_iteration(ScenarioText)
  /\ job_description_text = UserJd
  /\ nlp = TRUE
  /\ nlp_docs = NoDocs
  /\ \E n \in 0..MaxKeywords : \E k \in 0..n :
       /\ resume_lemmas = FirstLemmas(k)
       /\ jd_lemmas = FirstLemmas(n)
  /\ jd_match = match_job_description(nlp, resume_lemmas, jd_lemmas)
  /\ formatting_issues \in SubSeqs(<<SkillsMissing, WorkMissing, GraphicsHeavy>>)
  /\ content_issues \in
       SubSeqs(<<UsesBuzzwords({"dynamic"}), ValueProposition,
                 EducationMissing, LacksQuantification>>)
  /\ outdated_tech \in {FirstOutdated(n) : n \in 0..1}
  /\ LET got == calculate_scores(formatting_issues, content_issues,
                                 outdated_tech, jd_match.score)
     IN final_score = got.final_score /\ grade = got.grade
  /\ ran = {"extraction", "matching", "issue_compilation", "scoring"}

NextRecs ==
  \/ AssembleReport
  \/ Recommend

SpecRecs == InitRecs /\ [][NextRecs]_vars

(***************************************************************************)
(* SpecInfer: the job-description inference on texts of domain keywords.   *)
(***************************************************************************)
KeywordLine ==
  <<"Python,", "AWS", "cloud", "database", "Social", "media", "marketing",
    "campaign", "SEO", "Branding", "Photoshop", "Figma", "Logistics",
    "inventory", "freight">>

\* One-line texts: the words of KeywordLine at up to MaxWords positions.
KeywordTexts ==
  {<<SelectSeq([i \in 1..Len(KeywordLine) |-> IF i \in keep THEN KeywordLine[i] ELSE ""],
               LAMBDA w : w # "")>> :
     keep \in {k \in SUBSET (1..Len(KeywordLine)) :
                 1 <= Cardinality(k) /\ Cardinality(k) <= MaxWords}}

InitInfer ==
  /\ Blank("check")
  /\ raw_text \in KeywordTexts
  /\ doc = Docx(raw_text)
  /\ sections = parse_sections_by_iteration(raw_text)
  /\ job_description_text \in {None, "", UserJd}
  /\ nlp = TRUE
  /\ nlp_docs = NoDocs
  /\ resume_lemmas = {}
  /\ jd_lemmas = {}
  /\ jd_match = NoMatch
  /\ formatting_issues = <<>>
  /\ content_issues = <<>>
  /\ outdated_tech = {}
  /\ final_score = 0
  /\ grade = None
  /\ ran = {"extraction"}

NextInfer == InferJobDescription

SpecInfer == InitInfer /\ [][NextInfer]_vars

(***************************************************************************)
(* SpecUpload: concurrent requests to upload_and_analyze.                  *)
(***************************************************************************)
InitUpload ==
  /\ uploads = NoUploads
  /\ requests \in
       {q \in [Requests ->
                 [pc : {"received"}, has_file : BOOLEAN, filename : Filenames,
                  opens : BOOLEAN, seen : {0}, removed : {0}, error : {None},
                  page : {None}]] :
          \A r \in Requests :
            /\ ~q[r].has_file => q[r].filename = ""
            /\ q[r].filename \in {"", ".."} => q[r].opens}
  /\ pc = "done"
  /\ doc = Docx(LongText)
  /\ tesseract = TRUE
  /\ nlp = TRUE
  /\ nlp_docs = NoDocs
  /\ summarizer = None
  /\ job_description_text = None
  /\ raw_text = NoText
  /\ sections = NoSections
  /\ is_graphics_heavy = FALSE
  /\ via = None
  /\ resume_lemmas = {}
  /\ jd_lemmas = {}
  /\ jd_match = NoMatch
  /\ formatting_issues = <<>>
  /\ content_issues = <<>>
  /\ outdated_tech = {}
  /\ final_score = 0
  /\ grade = None
  /\ report = NoReport
  /\ ran = {}

NextUpload ==
  \E r \in Requests :
    \/ Redirect(r)
    \/ SaveUpload(r)
    \/ AnalyzeUpload(r)
    \/ RemoveUpload(r)
    \/ Respond(r)

SpecUpload == InitUpload /\ [][NextUpload]_vars

(***************************************************************************)
(* Properties.                                                             *)
(***************************************************************************)
Range(s) == {s[i] : i \in 1..Len(s)}

\* The place of a lemma in Python's string order.
Rank(lemma) == CHOOSE i \in 1..Len(LemmaOrder) : LemmaOrder[i] = lemma

Ascending(s) == \A i, j \in 1..Len(s) : i < j => Rank(s[i]) < Rank(s[j])

Matched == pc = "compile" /\ nlp

\* C1: with the lemmatizer loaded, the score match_job_description returns
\* is an integer in 0..100, equal to round(100 * |overlap| / |jd_lemmas|)
\* when jd_lemmas is non-empty and to 0 when it is empty.
C1_ScoreIsRoundedPercentage ==
  Matched =>
    /\ jd_match.score \in 0..100
    /\ jd_match.score =
         IF jd_lemmas = {} THEN 0
         ELSE Round(100 * Cardinality(resume_lemmas \cap jd_lemmas),
                    Cardinality(jd_lemmas))

\* C2: with the lemmatizer loaded, missing_keywords and overlap_keywords
\* partition jd_lemmas (their union is jd_lemmas, they share no lemma), and
\* each list is in ascending order without duplicates.
C2_KeywordsPartitionJdLemmas ==
  Matched =>
    /\ Range(jd_match.missing_keywords) \cup Range(jd_match.overlap_keywords)
         = jd_lemmas
    /\ Range(jd_match.missing_keywords) \cap Range(jd_match.overlap_keywords)
         = {}
    /\ Ascending(jd_match.missing_keywords)
    /\ Ascending(jd_match.overlap_keywords)

C2_Witness ==
  /\ Matched
  /\ Len(jd_match.missing_keywords) >= 1
  /\ Len(jd_match.overlap_keywords) >= 1
  /\ resume_lemmas \ jd_lemmas # {}

Scored == pc = "report"

IssueCount == Len(formatting_issues) + Len(content_issues)

\* C3: final_score is the integer nearest to 0.4 * quality + 0.6 * jd score,
\* with quality = max(0, 100 - 10 * issues - 5 * outdated terms), and lies in
\* 0..100.  (0.4q + 0.6j = (2q + 3j) / 5; nearest: at most 1/2 away.)
C3_FinalScoreIsNearestInteger ==
  Scored =>
    LET raw_quality == 100 - 10 * IssueCount - 5 * Cardinality(outdated_tech)
        quality == IF raw_quality < 0 THEN 0 ELSE raw_quality
        fifths == 2 * quality + 3 * jd_match.score
    IN /\ final_score \in 0..100
       /\ 2 * (5 * final_score - fifths) <= 5
       /\ 2 * (fifths - 5 * final_score) <= 5
       /\ (IssueCount = 0 /\ outdated_tech = {} /\ jd_match.score = 0)
            => final_score = 40

\* A score rounded up, with the quality clamped at 0.
C3_Witness ==
  /\ Scored
  /\ 100 - 10 * IssueCount - 5 * Cardinality(outdated_tech) < 0
  /\ jd_match.score = 96
  /\ final_score = 58

\* C4: the grade is A from 80, B from 70, C from 60, D from 40, else F.
C4_GradeThresholds ==
  Scored =>
    grade = IF final_score >= 80 THEN "A"
            ELSE IF final_score >= 70 THEN "B"
            ELSE IF final_score >= 60 THEN "C"
            ELSE IF final_score >= 40 THEN "D"
            ELSE "F"

C4_Witness == Scored /\ final_score = 79 /\ grade = "B"

\* Extraction failed: an unsupported extension, an exception, the OCR engine
\* found missing, or an empty text.
ExtractionFailed ==
  /\ pc # "extract"
  /\ \/ via \in {"unsupported", "except", "ocr_missing"}
     \/ ~Truthy(raw_text)

\* C5: when extraction fails, no component after the extractor runs and the
\* result is an error record and nothing else; when the OCR engine was
\* found missing, the error is the OCR one.
C5_ExtractionFailureShortCircuits ==
  ExtractionFailed =>
    /\ ran = {"extraction"}
    /\ pc \in {"check", "done"}
    /\ pc = "done" =>
         /\ DOMAIN report = {"error"}
         /\ report.error =
              IF via = "ocr_missing" THEN ErrorTesseract ELSE ErrorExtract

C5_Witness ==
  /\ pc = "done"
  /\ via = "ocr_missing"
  /\ Len(doc.ocr) >= 1
  /\ report = [error |-> ErrorTesseract]

Compiled == pc = "score"

Raised(issue) == \E i \in 1..Len(content_issues) : content_issues[i] = issue

\* The lines of the work-experience section of more than 15 characters, and
\* those of them with a digit.
LongLineIndexes ==
  {i \in 1..Len(sections["work_experience"]) :
     LineLen(sections["work_experience"][i]) > 15}

QuantifiedIndexes ==
  {i \in LongLineIndexes : LineHasDigit(sections["work_experience"][i])}

\* Fewer than 30% of the long lines have a digit; no long line counts as 0%.
BelowThirtyPercent ==
  \/ LongLineIndexes = {}
  \/ 10 * Cardinality(QuantifiedIndexes) < 3 * Cardinality(LongLineIndexes)

\* C6 as stated: for every work-experience section text, the 'lacks
\* quantification' issue is raised exactly when fewer than 30% of the lines
\* longer than 15 characters contain a digit (no such line: raised).
C6_QuantificationForEveryText ==
  Compiled => (Raised(LacksQuantification) <=> BelowThirtyPercent)

\* C6 amended: the same for every non-empty work-experience section text; for
\* an empty one the issue is not raised.
C6_QuantificationForNonEmptyText ==
  Compiled =>
    IF sections["work_experience"] = EmptyText
    THEN ~Raised(LacksQuantification)
    ELSE Raised(LacksQuantification) <=> BelowThirtyPercent

\* Exactly 30%: three of ten long lines have a digit, and no issue.
C6_Witness ==
  /\ Compiled
  /\ Cardinality(LongLineIndexes) = 10
  /\ Cardinality(QuantifiedIndexes) = 3
  /\ ~Raised(LacksQuantification)

\* A token without the punctuation around it, in lower case.
BareWord(token) ==
  CASE token = "player." -> "player"
    [] token = "Python," -> "python"
    [] token = "Education:" -> "education"
    [] token = "B.S." -> "b.s"
    [] token = ":" -> ""
    [] OTHER -> TokenInfo[token].lower

\* The words of a buzzword.
PhraseWords(buzzword) ==
  CASE buzzword = "team player" -> <<"team", "player">>
    [] buzzword = "thought leader" -> <<"thought", "leader">>
    [] OTHER -> <<buzzword>>

\* The buzzword occurs in the text as a whole word or phrase.
PhraseOccurs(buzzword, text) ==
  LET words == PhraseWords(buzzword)
  IN \E i \in 1..Len(text) : \E j \in 1..Len(text[i]) :
       /\ j + Len(words) - 1 <= Len(text[i])
       /\ \A k \in 1..Len(words) : BareWord(text[i][j + k - 1]) = words[k]

\* The buzzwords the content issues report.
ReportedBuzzwords ==
  UNION {content_issues[i].items : i \in 1..Len(content_issues)}

\* C7: every buzzword that occurs in a non-empty profile summary as a whole
\* word or phrase is reported in a content issue; for the text 'Summary / A
\* dynamic team player. / Skills / Python, AWS' the summary and the skills
\* are those two lines, 'dynamic' and 'team player' are reported, and the
\* missing work experience and education are flagged.
C7_EveryBuzzwordReported ==
  Compiled =>
    /\ \A buzzword \in BUZZWORDS :
         PhraseOccurs(buzzword, sections["profile_summary"])
           => buzzword \in ReportedBuzzwords
    /\ raw_text = ScenarioText =>
         /\ sections["profile_summary"] = <<LineDynamic>>
         /\ sections["skills"] = <<LinePython>>
         /\ {"dynamic", "team player"} \subseteq ReportedBuzzwords
         /\ WorkMissing \in Range(formatting_issues)
         /\ Raised(EducationMissing)

Recommended == pc = "done" /\ "recommendation" \in ran

\* The five triggers, read from the report.
Trigger(k) ==
  LET checks == report.classified_checks
  IN CASE k = 1 -> /\ checks["Job Fit"].score < 75
                   /\ Len(checks["Job Fit"].missing_keywords) > 0
       [] k = 2 -> \E issue \in Range(checks["Formatting & ATS"].issues) :
                     Mentions(issue, "section")
       [] k = 3 -> \E issue \in Range(checks["Content & Impact"].issues) :
                     Mentions(issue, "value proposition")
       [] k = 4 -> \E issue \in Range(checks["Content & Impact"].issues) :
                     Mentions(issue, "quantification")
       [] k = 5 -> checks["Technology Freshness"].outdated_tech # {}

\* The guidance items in their order; 6 is the fallback.
Guidance ==
  <<ImproveJobFit(<<>>).text, CheckSectionHeaders.text,
    RewriteProfileSummary.text, QuantifyAchievements.text,
    UpdateTechnologyStack.text, ResumeIsStrong.text>>

KindOf(recommendation) ==
  CHOOSE k \in 1..6 : Guidance[k] = recommendation.text

\* C8: the recommendations are exactly the guidance items whose triggers
\* hold, in the fixed order; the job-fit item names the first 8 missing
\* keywords at most; the fallback is there exactly when no trigger holds, and
\* then alone; the list is never empty.
C8_RecommendationsFollowTriggers ==
  Recommended =>
    LET recs == report.personalized_recommendations
        missing == report.classified_checks["Job Fit"].missing_keywords
    IN /\ recs # <<>>
       /\ \A k \in 1..5 : Trigger(k) <=> \E i \in 1..Len(recs) : KindOf(recs[i]) = k
       /\ \A i, j \in 1..Len(recs) : i < j => KindOf(recs[i]) < KindOf(recs[j])
       /\ (\E i \in 1..Len(recs) : KindOf(recs[i]) = 6)
            <=> ~\E k \in 1..5 : Trigger(k)
       /\ (\E i \in 1..Len(recs) : KindOf(recs[i]) = 6) => Len(recs) = 1
       /\ \A i \in 1..Len(recs) :
            IF KindOf(recs[i]) = 1
            THEN /\ Len(recs[i].items) = Min(8, Len(missing))
                 /\ \A p \in 1..Len(recs[i].items) : recs[i].items[p] = missing[p]
            ELSE recs[i].items = <<>>

\* All five triggers hold and more than 8 keywords are missing.
C8_Witness ==
  /\ Recommended
  /\ Len(report.classified_checks["Job Fit"].missing_keywords) > 8
  /\ Len(report.personalized_recommendations) = 5
  /\ Len(report.personalized_recommendations[1].items) = 8

Inferred == pc = "match" /\ "inference" \in ran

\* The position of a domain in the table.
DomainIndex(domain) == CHOOSE i \in 1..Len(DomainOrder) : DomainOrder[i] = domain

\* The number of a domain's keywords that occur in the text.
KeywordCount(domain) ==
  Cardinality({keyword \in DOMAIN_KEYWORDS[domain] : TermIn(keyword, raw_text)})

\* C9: the job description used for matching is never null; one supplied is
\* kept; without one, the domain with the most keywords in the text is
\* picked, the first in table order on a tie, and the generic description is
\* used exactly when that count is at most 2, else the domain's own.
C9_InferenceIsDeterministic ==
  pc = "match" =>
    /\ job_description_text # None
    /\ "inference" \notin ran => job_description_text = UserJd
    /\ "inference" \in ran =>
         \E best \in Range(DomainOrder) :
           /\ \A other \in Range(DomainOrder) :
                \/ KeywordCount(other) < KeywordCount(best)
                \/ /\ KeywordCount(other) = KeywordCount(best)
                   /\ DomainIndex(best) <= DomainIndex(other)
           /\ job_description_text =
                IF KeywordCount(best) <= 2 THEN DEFAULT_JDS["generic"]
                ELSE DEFAULT_JDS[best]

\* Software and marketing tie with three keywords each: software wins.
C9_Witness ==
  /\ Inferred
  /\ KeywordCount("software") = 3
  /\ KeywordCount("marketing") = 3
  /\ job_description_text = DEFAULT_JDS["software"]

Parsed == pc \in {"compile", "score"} /\ sections # NoSections

HeadingAt(i) == IsHeading(raw_text[i])

HeadingOf(i) == KeywordSection(CleanedLine(raw_text[i]))

\* The section whose heading is the last one before line i, None if none is.
Owner(i) ==
  LET before == {j \in 1..(i - 1) : HeadingAt(j)}
  IN IF before = {} THEN None
     ELSE HeadingOf(CHOOSE j \in before : \A h \in before : h <= j)

\* The lines at the positions of P, in their order.
LinesAt(P) ==
  [n \in 1..Cardinality(P) |->
     raw_text[CHOOSE p \in P : Cardinality({q \in P : q < p}) = n - 1]]

\* Lines a..b are the lines between a heading of the section and the next
\* heading (or the end of the text).
IsRun(key, a, b) ==
  /\ HeadingAt(a - 1) /\ HeadingOf(a - 1) = key
  /\ \A i \in a..b : ~HeadingAt(i)
  /\ b = Len(raw_text) \/ HeadingAt(b + 1)

\* C10 as stated: the result has the four keys, and each section's text is
\* one contiguous run of input lines, those between a heading of the
\* section and the next heading (joined and trimmed); it is empty when the
\* section has no heading.
C10_SectionIsOneRun ==
  Parsed =>
    /\ DOMAIN sections = SectionNames
    /\ \A key \in SectionNames :
         \/ /\ ~\E i \in 1..Len(raw_text) : HeadingAt(i) /\ HeadingOf(i) = key
            /\ sections[key] = EmptyText
         \/ \E a \in 2..(Len(raw_text) + 1) : \E b \in (a - 1)..Len(raw_text) :
              /\ IsRun(key, a, b)
              /\ sections[key] = StripText(JoinLines(SubSeq(raw_text, a, b)))

\* C10 amended: the result has the four keys, and each section's text is
\* made of all the lines that follow a heading of that section up to the
\* next heading, for every heading of the section, in input order (joined
\* and trimmed); headings are consumed and lines before the first heading
\* are dropped.
C10_SectionIsAllItsRuns ==
  Parsed =>
    /\ DOMAIN sections = SectionNames
    /\ \A key \in SectionNames :
         sections[key] =
           StripText(JoinLines(LinesAt(
             {i \in 1..Len(raw_text) : ~HeadingAt(i) /\ Owner(i) = key})))

\* Two headings of the skills section, each followed by a line.
C10_Witness ==
  /\ Parsed
  /\ raw_text = <<LineSkills, LinePython, LineTools, LineDynamic>>
  /\ sections["skills"] = <<LinePython, LineDynamic>>

\* The document's text is extracted successfully and is not empty: a DOCX
\* that opens, or a PDF that opens with a text layer of at least 150
\* characters, whose stripped text is not empty.
ExtractedNonEmpty ==
  /\ doc.opens
  /\ \/ ExtLower(doc.ext) = ".docx"
     \/ /\ ExtLower(doc.ext) = ".pdf"
        /\ TextLen(StripText(doc.layer)) >= OcrThreshold
  /\ Truthy(StripText(doc.layer))

\* C12 as stated: a finished run returns the OCR-engine-missing error only
\* when the engine was found missing in the OCR loop of a PDF, and every
\* document whose text is extracted successfully and is not empty gets a
\* report, whatever the text says.
C12_OcrErrorOnlyWhenEngineMissing ==
  pc = "done" =>
    /\ report = [error |-> ErrorTesseract] => via = "ocr_missing"
    /\ ExtractedNonEmpty => "error" \notin DOMAIN report


\* The request has saved its upload (the save did not raise).
HasSaved(r) ==
  requests[r].pc \in {"saved", "analyzed", "removed", "responded",
                      "remove_failed"}

\* C11 as stated: under any interleaving of the requests, from a request's
\* save to the end of its analysis the file at its path is the one it
\* saved (no other request overwrote or removed it), so the analysis reads
\* the request's own upload; and every saved upload is removed by the
\* request that saved it (its os.remove finds the file, and the file is
\* its own).
C11_EachRequestOwnsItsFile ==
  \A r \in DOMAIN requests :
    /\ requests[r].pc = "saved" => uploads[Filepath(r)] = Upload(r)
    /\ requests[r].pc \in {"analyzed", "removed", "responded", "remove_failed"}
         => requests[r].seen = r
    /\ requests[r].pc # "remove_failed"
    /\ requests[r].pc \in {"removed", "responded"} => requests[r].removed = r

=============================================================================
